---- MODULE Spec2Model ----
(***************************************************************************)
(* Firmware-update (OTA) engine and control-channel dispatcher of the      *)
(* tansuodou firmware.                                                     *)
(*                                                                         *)
(*   modules/ota_manager.py      OTAManager (download, verify, activate)   *)
(*   modules/ota_http_server.py  OTAHTTPServer (POST /ota, POST /update)   *)
(*   modules/tansuodou_main.py   TansuodouDevice (WebSocket dispatcher)    *)
(*                                                                         *)
(* The firmware image being served is identified byte by byte by its       *)
(* offset: a flash block holds [off, len], the image bytes off..off+len-1  *)
(* followed by 0xFF up to the block size; an erased block has len = 0.     *)
(***************************************************************************)
EXTENDS Integers, Naturals, Sequences, FiniteSets, TLC

VARIABLES
    boot,          \* the partition marked as next boot target
    flash,         \* content of the two application partitions, per block
    reset,         \* 0 while the device runs, else the job that called machine.reset
    job,           \* one record per OTA job (a thread running the update)
    ota_progress,  \* ota_http_server.ota_progress, the shared snapshot
    ws_clients,    \* TansuodouDevice.ws_clients, the connection set
    sess,          \* one record per WebSocket connection (a session thread)
    user_code_thread,     \* tansuodou_main.user_code_thread
    stop_user_code_flag,  \* tansuodou_main.stop_user_code_flag
    main_py_running,      \* tansuodou_main.main_py_running
    prog,          \* one record per background thread running user code
    files,         \* the files save_persistent_code writes, by name
    sys_stdout,    \* sys.stdout and sys.stderr: 0 for the streams the device
                   \* booted with, c for the buffers of session c's call
    data,          \* read loop: the bytes the last recv returned
    message,       \* read loop: the result of parse_websocket_frame(data)
    client_pc,     \* read loop: "recv", "parse", "dispatch", "continue", "closed"
    peer,          \* what the peer put on the wire for the last recv
    idle,          \* read loop: time.time() - last_ping_time, in recv timeouts
    stream,        \* the counters of one download or upload loop
    improv         \* one Improv packet: what was sent, the bytes, the parse

otaVars == <<boot, flash, reset, job, ota_progress>>

sbVars == <<user_code_thread, stop_user_code_flag, main_py_running, prog, files,
            sys_stdout>>

wsVars == <<ws_clients, sess, user_code_thread, stop_user_code_flag,
            main_py_running, prog, files, sys_stdout>>

codecVars == <<data, message, client_pc, peer, idle>>

vars == <<boot, flash, reset, job, ota_progress, ws_clients, sess,
          user_code_thread, stop_user_code_flag, main_py_running, prog, files,
          sys_stdout, data, message, client_pc, peer, idle, stream, improv>>

----------------------------------------------------------------------------
(* Bounds of the model *)

MaxJobs == 2        \* OTA jobs started in one run of the device
MaxReads == 2       \* reads a job's stream is delivered in
MaxConns == 2       \* WebSocket connections accepted
MaxPush == 2        \* progress reports pushed by one job's thread
MaxProgs == 2       \* background user programs started in one run

(* Program constants *)

ChunkSize == 4096   \* chunk_size
ReportEvery == 65536 \* 64 * 1024

JobIds == 1..MaxJobs
Conns == 1..MaxConns
ProgIds == 1..MaxProgs
Blocks == 0..(MaxReads - 1)

\* lengths a read of the stream may return (1..chunk_size in the code)
ReadLens == {100, ChunkSize}

\* declared sizes: update_info['size'], Content-Length
Sizes == {0, ChunkSize + 100}

Partitions == {"ota_0", "ota_1"}
RunningPartition == "ota_0"

Min(a, b) == IF a < b THEN a ELSE b

----------------------------------------------------------------------------
(* Flash partitions: esp32.Partition *)

\* rest: what the block holds behind its len image bytes: nothing (the block
\* is full), 0xFF, or bytes left over from an earlier chunk
ErasedBlock == [off |-> 0, len |-> 0, rest |-> "ff"]
OrigBlock == [off |-> -1, len |-> ChunkSize, rest |-> "none"]   \* a block of the running firmware

\* get_next_update returning the partition it is asked about
get_next_update_same(p) == p

\* Partition(Partition.RUNNING).get_next_update()
get_next_update(p) == IF p = "ota_0" THEN "ota_1" ELSE "ota_0"

\* Partition.erase(): every block of the partition reads 0xFF
erase(fl, p) == [fl EXCEPT ![p] = [b \in Blocks |-> ErasedBlock]]

\* the buffer written without the loop that fills it behind the chunk
buffer_no_fill(off, n) ==
    [off |-> off, len |-> n,
     rest |-> IF n = ChunkSize THEN "none" ELSE "stale"]

\* what is handed to writeblocks for a chunk of n image bytes from offset
\* off: the chunk itself when it is chunk_size long, else the chunk_size
\* buffer with the chunk at its start and 0xFF in every byte behind it
buffer(off, n) ==
    [off |-> off, len |-> n,
     rest |-> IF n = ChunkSize THEN "none" ELSE "ff"]

\* Partition.writeblocks(block, buf) for the chunk of n image bytes from
\* offset off: block b holds the chunk_size bytes of buf
writeblocks(fl, p, b, off, n) == [fl EXCEPT ![p][b] = buffer(off, n)]

\* the n bytes read back from the start of block b are the image bytes at
\* offset b * chunk_size
BlockIsImage(fl, p, b, n) ==
    fl[p][b].off = b * ChunkSize /\ fl[p][b].len >= n

----------------------------------------------------------------------------
(* Digests.  A digest value is characterised by the length of the digested  *)
(* bytes and by whether they are the image's first bytes; the declared      *)
(* checksum of update_info is one of these values or the empty string.      *)

GoodChecksum(size) == [n |-> size, img |-> TRUE]
BadChecksum == [n |-> -1, img |-> FALSE]
EmptyChecksum == [n |-> -2, img |-> FALSE]

Checksums(size) == {GoodChecksum(size), BadChecksum}

\* blocks read back by verify_firmware for actual_size bytes
NumBlocks(actual) == (actual + ChunkSize - 1) \div ChunkSize

\* sha256 of the actual_size bytes read back from partition p, hexlified
ReadbackDigest(fl, p, actual) ==
    [n |-> actual,
     img |-> \A k \in 0..(NumBlocks(actual) - 1) :
                k \in Blocks
                /\ BlockIsImage(fl, p, k, Min(ChunkSize, actual - k * ChunkSize))]

\* verify_firmware taking an empty expected checksum as nothing to compare
verify_firmware_unless_empty(fl, p, expected_checksum, actual_size) ==
    \/ expected_checksum = EmptyChecksum
    \/ ReadbackDigest(fl, p, actual_size) = expected_checksum

\* OTAManager.verify_firmware: digest of the bytes read back == expected_checksum
verify_firmware(fl, p, expected_checksum, actual_size) ==
    ReadbackDigest(fl, p, actual_size) = expected_checksum

----------------------------------------------------------------------------
(* Jobs *)

NoReport == [stage |-> "none", progress |-> 0]

IdleJob ==
    [kind |-> "none", pc |-> "idle", size |-> 0, checksum |-> EmptyChecksum,
     part |-> "none", downloaded |-> 0, write_offset |-> 0, reads |-> 0,
     erased |-> FALSE, nwrites |-> 0, lastBlock |-> -1,
     verifyCalled |-> FALSE, verifiedOK |-> FALSE, setBootCalled |-> FALSE,
     last |-> NoReport, reporting |-> FALSE, flashFailed |-> FALSE]

\* states between a job's start and its ERROR or reboot
ActivePc == {"start", "stream", "activate", "countdown"}

Active(j) == job[j].pc \in ActivePc

\* the entry points of the HTTP server, whose jobs report through
\* OTAHTTPServer.update_progress
HttpKinds == {"url", "upload"}

\* handle_request taken to return when the job's last statement begins
HttpBusy_until_last_report ==
    \E j \in JobIds : job[j].kind \in HttpKinds /\ Active(j)

\* handle_ota_url and handle_ota_upload run their job before they return, so
\* run_ota_server's thread is inside handle_request for the whole job,
\* update_progress calls included
HttpBusy ==
    \E j \in JobIds :
        job[j].kind \in HttpKinds /\ (Active(j) \/ job[j].reporting)

\* jobs are numbered in the order they start
NextJob(j) == job[j].pc = "idle" /\ \A k \in JobIds : k < j => job[k].pc # "idle"

\* a connection before handle_websocket_client has read its handshake
\* note: which text the session thread put in its last reply
NewSession ==
    [st |-> "new", pc |-> "idle", msg |-> "none", frames |-> <<>>,
     note |-> "none", ota |-> "none", npush |-> 0, hs |-> "none",
     timeout |-> 0, original_stdout |-> 0]

\* socket timeouts in tenths of a second: conn.settimeout(30.0) before the
\* handshake, conn.settimeout(0.5) at the top of the read loop,
\* conn.settimeout(5.0) in send_websocket_message
HandshakeTimeout == 300

LoopTimeout == 5

SendTimeout == 50

\* a background user program: kind "polls" calls should_stop() at its safe
\* points, kind "nopoll" never does
NoProg == [st |-> "none", conn |-> 0, kind |-> "none"]

DoneProg == [st |-> "done", conn |-> 0, kind |-> "none"]

NextProg(i) ==
    prog[i].st = "none" /\ \A k \in ProgIds : k < i => prog[k].st # "none"

Filenames == {"main.py", "lib.py"}

Cmds == {"x = 2"}

\* the main.py found at boot
BootCode == "print(1)"

\* parse_websocket_frame returns None or a str (here: its UTF-8 bytes)
\* err: the parser's except clause ran and printed the failure
None == [some |-> FALSE, text |-> <<>>, err |-> FALSE]

Str(t) == [some |-> TRUE, text |-> t, err |-> FALSE]

ParseFailed == [some |-> FALSE, text |-> <<>>, err |-> TRUE]

\* no Improv packet under way; result is what parse_improv_packet returned,
\* some = FALSE standing for None
NoPacket == [some |-> FALSE, type |-> 0, data |-> <<>>]

NoImprov ==
    [pc |-> "idle", packet_type |-> 0, payload |-> <<>>, packet |-> <<>>,
     intact |-> TRUE, result |-> NoPacket]

NoPeer == [origin |-> "none", payload |-> <<>>, mask |-> <<>>, got |-> 0,
           total |-> 0, frames |-> 0, handled |-> 0]

\* no download or upload loop entered yet; report: the progress of the last
\* report, since: the bytes received after it
NoStream ==
    [kind |-> "none", pc |-> "idle", expected_size |-> 0, downloaded |-> 0,
     reads |-> 0, report |-> 0, since |-> 0]

Init ==
    /\ data = <<>>
    /\ message = None
    /\ client_pc = "recv"
    /\ peer = NoPeer
    /\ idle = 0
    /\ stream = NoStream
    /\ improv = NoImprov
    /\ boot = RunningPartition
    /\ flash = [p \in Partitions |-> [b \in Blocks |-> OrigBlock]]
    /\ reset = 0
    /\ job = [j \in JobIds |-> IdleJob]
    /\ ota_progress = [stage |-> "idle", progress |-> 0]
    /\ ws_clients = {}
    /\ sess = [c \in Conns |-> NewSession]
    /\ user_code_thread = "None"
    /\ stop_user_code_flag = FALSE
    /\ main_py_running = FALSE
    /\ files = [fn \in Filenames |-> "absent"]
    /\ prog = [i \in ProgIds |-> NoProg]
    /\ sys_stdout = 0

----------------------------------------------------------------------------
(* Progress reports *)

\* OTAManager.report_progress: the job's latest report.  For a job of the
\* HTTP server the callback is update_progress, which the thread is inside
\* until update_progress_store
Reported(jr, stage, progress) ==
    [jr EXCEPT !.last = [stage |-> stage, progress |-> progress],
               !.reporting = jr.kind \in HttpKinds]

\* OTAHTTPServer.update_progress is the callback of the HTTP server's manager
\* and is called directly by the upload path; a WebSocket job's manager has
\* the session's push callback instead.  It assigns the record's fields one
\* by one: this is the assignment of 'stage'
update_progress(snap, kind, stage, progress) ==
    IF kind \in HttpKinds
    THEN [snap EXCEPT !.stage = stage]
    ELSE snap

\* the response handle_get_progress sends: the record as it is
handle_get_progress == ota_progress

\* the except clause of perform_ota_update / receive_and_flash_firmware: the
\* job's thread returns, and of its locals the record keeps the declared
\* size and the bytes received
Failed(jr) ==
    [Reported(jr, "error", 0) EXCEPT
       !.pc = "error", !.part = "none", !.checksum = EmptyChecksum,
       !.write_offset = 0, !.reads = 0, !.nwrites = 0, !.lastBlock = -1]

\* a job step that ends in the except clause
Fail(j, jr) ==
    /\ job' = [job EXCEPT ![j] = Failed(jr)]
    /\ ota_progress' = update_progress(ota_progress, jr.kind, "error", 0)

----------------------------------------------------------------------------
(* Entry points *)

\* handle_message, msg_type == 'ota_update': a new OTAManager and a new thread
handle_message_ota_update(j, size, checksum) ==
    /\ reset = 0
    /\ UNCHANGED <<wsVars, codecVars, stream, improv>>
    /\ NextJob(j)
    /\ job' = [job EXCEPT ![j] =
                 [IdleJob EXCEPT !.kind = "ws", !.pc = "start",
                                 !.size = size, !.checksum = checksum]]
    /\ UNCHANGED <<boot, flash, reset, ota_progress>>

\* handle_ota_url -> perform_ota_from_url: size from HEAD (or 0), checksum ''
handle_ota_url(j, size) ==
    /\ reset = 0
    /\ UNCHANGED <<wsVars, codecVars, stream, improv>>
    /\ NextJob(j)
    /\ ~HttpBusy
    /\ job' = [job EXCEPT ![j] =
                 [IdleJob EXCEPT !.kind = "url", !.pc = "start",
                                 !.size = size, !.checksum = EmptyChecksum]]
    /\ UNCHANGED <<boot, flash, reset, ota_progress>>

----------------------------------------------------------------------------
(* OTAManager.perform_ota_update, one action per step of the job's thread *)

\* download_firmware opening the stream without erasing the partition
download_begin_no_erase(j) ==
    LET jr == job[j]
        part == get_next_update(RunningPartition)
    IN
    /\ reset = 0
    /\ UNCHANGED <<wsVars, codecVars, stream, improv>>
    /\ jr.kind \in {"ws", "url"}
    /\ jr.pc = "start"
    /\ job' = [job EXCEPT ![j] =
                 [Reported(jr, "download", 10) EXCEPT !.part = part, !.pc = "stream"]]
    /\ ota_progress' = update_progress(ota_progress, jr.kind, "download", 10)
    /\ UNCHANGED <<boot, flash, reset>>

\* perform_ota_update up to download_firmware's erase
download_begin(j) ==
    LET jr == job[j]
        part == get_next_update(RunningPartition)
        sel == [jr EXCEPT !.part = part]
    IN
    /\ reset = 0
    /\ UNCHANGED <<wsVars, codecVars, stream, improv>>
    /\ jr.kind \in {"ws", "url"}
    /\ jr.pc = "start"
    /\ \/ \* update_info lacks a key perform_ota_update reads: KeyError
          /\ jr.kind = "ws"
          /\ Fail(j, jr)
          /\ UNCHANGED <<boot, flash, reset>>
       \/ \* erase() raises
          /\ Fail(j, [sel EXCEPT !.flashFailed = TRUE])
          /\ UNCHANGED <<boot, flash, reset>>
       \/ /\ flash' = erase(flash, part)
          /\ job' = [job EXCEPT ![j] =
                       [Reported(sel, "download", 10) EXCEPT
                          !.erased = TRUE, !.pc = "stream"]]
          /\ ota_progress' = update_progress(ota_progress, jr.kind, "download", 10)
          /\ UNCHANGED <<boot, reset>>

\* download_firmware: progress = 10 + int((downloaded / expected_size) * 80),
\* the quotient taken exactly
DownloadProgress(downloaded, expected_size) ==
    10 + ((downloaded * 80) \div expected_size)

\* download_firmware: the passes of the loop that report
DownloadReports(downloaded, expected_size) ==
    downloaded % ReportEvery = 0 \/ downloaded = expected_size

\* one pass of download_firmware's loop with a chunk of n bytes
download_chunk(j, n) ==
    LET jr == job[j]
        block == jr.write_offset \div ChunkSize
        wr == [jr EXCEPT !.nwrites = @ + 1, !.lastBlock = block,
                         !.write_offset = @ + n, !.downloaded = @ + n,
                         !.reads = @ + 1]
        progress == DownloadProgress(wr.downloaded, jr.size)
        report == DownloadReports(wr.downloaded, jr.size)
    IN
    /\ reset = 0
    /\ UNCHANGED <<wsVars, codecVars, stream, improv>>
    /\ jr.kind \in {"ws", "url"}
    /\ jr.pc = "stream"
    /\ jr.reads < MaxReads
    /\ \/ \* writeblocks raises
          /\ Fail(j, [jr EXCEPT !.flashFailed = TRUE])
          /\ UNCHANGED <<boot, flash, reset>>
       \/ /\ flash' = writeblocks(flash, jr.part, block, jr.write_offset, n)
          /\ IF jr.size = 0
             THEN Fail(j, wr)            \* ZeroDivisionError
             ELSE /\ job' = [job EXCEPT ![j] =
                               IF report THEN Reported(wr, "download", progress)
                                         ELSE wr]
                  /\ ota_progress' =
                       IF report
                       THEN update_progress(ota_progress, jr.kind, "download", progress)
                       ELSE ota_progress
          /\ UNCHANGED <<boot, reset>>

\* a comparison that lets a short download through
SizeMismatch_short_ok(downloaded, size) == downloaded > size

\* perform_ota_update: downloaded != update_info['size'] raises
SizeMismatch(downloaded, size) == downloaded # size

\* the read returns no bytes: download_firmware returns downloaded,
\* perform_ota_update compares it with update_info['size'] and, when they are
\* equal, calls verify_firmware and tests its result
download_end(j) ==
    LET jr == job[j]
        called == [jr EXCEPT !.verifyCalled = TRUE]
    IN
    /\ reset = 0
    /\ UNCHANGED <<wsVars, codecVars, stream, improv>>
    /\ jr.kind \in {"ws", "url"}
    /\ jr.pc = "stream"
    /\ IF SizeMismatch(jr.downloaded, jr.size)
       THEN Fail(j, jr)
       ELSE \/ \* readblocks raises: verify_firmware returns False
               Fail(j, called)
            \/ IF verify_firmware(flash, jr.part, jr.checksum, jr.downloaded)
               THEN /\ job' = [job EXCEPT ![j] =
                                 [Reported(called, "verify", 100) EXCEPT
                                    !.verifiedOK = TRUE, !.pc = "activate"]]
                    /\ ota_progress' =
                         update_progress(ota_progress, jr.kind, "verify", 100)
               ELSE Fail(j, called)
    /\ UNCHANGED <<boot, flash, reset>>

\* urequests.get or response.raw.read raises
download_fail(j) ==
    LET jr == job[j] IN
    /\ reset = 0
    /\ UNCHANGED <<wsVars, codecVars, stream, improv>>
    /\ jr.kind \in {"ws", "url"}
    /\ jr.pc = "stream"
    /\ Fail(j, jr)
    /\ UNCHANGED <<boot, flash, reset>>

\* activate_and_reboot restarting before it marks the partition
activate_reset_first(j) ==
    LET jr == job[j] IN
    /\ reset = 0
    /\ UNCHANGED <<wsVars, codecVars, stream, improv>>
    /\ jr.pc = "activate"
    /\ reset' = j
    /\ job' = [job EXCEPT ![j] = [jr EXCEPT !.pc = "rebooted"]]
    /\ UNCHANGED <<boot, flash, ota_progress>>

\* activate_and_reboot up to the countdown; Partition.set_boot is taken to
\* return normally
activate(j) ==
    LET jr == job[j]
        called == [jr EXCEPT !.setBootCalled = TRUE]
    IN
    /\ reset = 0
    /\ UNCHANGED <<wsVars, codecVars, stream, improv>>
    /\ jr.pc = "activate"
    /\ boot' = jr.part
    /\ job' = [job EXCEPT ![j] =
                 [Reported(called, "activate", 50) EXCEPT !.pc = "countdown"]]
    /\ ota_progress' = update_progress(ota_progress, jr.kind, "activate", 50)
    /\ UNCHANGED <<flash, reset>>

\* the countdown, with its reports up to ('activate', 100) stored in full,
\* and machine.reset()
machine_reset(j) ==
    LET jr == job[j]
        fin == IF jr.kind = "upload" THEN jr
               ELSE [Reported(jr, "activate", 100) EXCEPT !.reporting = FALSE]
    IN
    /\ reset = 0
    /\ UNCHANGED <<wsVars, codecVars, stream, improv>>
    /\ jr.pc = "countdown"
    /\ reset' = j
    /\ job' = [job EXCEPT ![j] = [fin EXCEPT !.pc = "rebooted"]]
    /\ ota_progress' = IF jr.kind = "url" THEN fin.last ELSE ota_progress
    /\ UNCHANGED <<boot, flash>>

----------------------------------------------------------------------------
(* OTAHTTPServer.handle_ota_upload -> receive_and_flash_firmware *)

\* POST /update with Content-Length total, up to erase()
handle_ota_upload(j, total) ==
    LET part == get_next_update(RunningPartition)
        jr == [IdleJob EXCEPT !.kind = "upload", !.size = total, !.part = part]
    IN
    /\ reset = 0
    /\ UNCHANGED <<wsVars, codecVars, stream, improv>>
    /\ NextJob(j)
    /\ ~HttpBusy
    /\ total # 0
    /\ \/ \* erase() raises
          /\ Fail(j, [jr EXCEPT !.flashFailed = TRUE])
          /\ UNCHANGED <<boot, flash, reset>>
       \/ /\ flash' = erase(flash, part)
          /\ job' = [job EXCEPT ![j] =
                       [Reported(jr, "upload", 5) EXCEPT
                          !.erased = TRUE, !.pc = "stream"]]
          /\ ota_progress' = update_progress(ota_progress, "upload", "upload", 5)
          /\ UNCHANGED <<boot, reset>>

\* receive_and_flash_firmware: progress = 5 + int((received / total_size) * 85)
UploadProgress(received, total_size) == 5 + ((received * 85) \div total_size)

\* receive_and_flash_firmware: the passes of the loop that report
UploadReports(received) == received % ReportEvery = 0

\* one pass of the receive loop: conn.recv returns n bytes
upload_chunk(j, n) ==
    LET jr == job[j]
        block == jr.write_offset \div ChunkSize
        wr == [jr EXCEPT !.nwrites = @ + 1, !.lastBlock = block,
                         !.write_offset = @ + n, !.downloaded = @ + n,
                         !.reads = @ + 1]
        progress == UploadProgress(wr.downloaded, jr.size)
        report == UploadReports(wr.downloaded)
    IN
    /\ reset = 0
    /\ UNCHANGED <<wsVars, codecVars, stream, improv>>
    /\ jr.kind = "upload"
    /\ jr.pc = "stream"
    /\ jr.reads < MaxReads
    /\ jr.downloaded < jr.size
    /\ n <= Min(ChunkSize, jr.size - jr.downloaded)
    /\ \/ \* writeblocks raises
          /\ Fail(j, [jr EXCEPT !.flashFailed = TRUE])
          /\ UNCHANGED <<boot, flash, reset>>
       \/ /\ flash' = writeblocks(flash, jr.part, block, jr.write_offset, n)
          /\ job' = [job EXCEPT ![j] =
                       IF report THEN Reported(wr, "upload", progress) ELSE wr]
          /\ ota_progress' =
               IF report
               THEN update_progress(ota_progress, "upload", "upload", progress)
               ELSE ota_progress
          /\ UNCHANGED <<boot, reset>>

\* the loop ends (all of total received, or recv returned no bytes) and the
\* partition is made the boot target
upload_activate(j) ==
    LET jr == job[j]
        called == [jr EXCEPT !.setBootCalled = TRUE]
    IN
    /\ reset = 0
    /\ UNCHANGED <<wsVars, codecVars, stream, improv>>
    /\ jr.kind = "upload"
    /\ jr.pc = "stream"
    /\ boot' = jr.part
    /\ job' = [job EXCEPT ![j] =
                 [Reported(called, "complete", 100) EXCEPT !.pc = "countdown"]]
    /\ ota_progress' = update_progress(ota_progress, "upload", "complete", 100)
    /\ UNCHANGED <<flash, reset>>

\* conn.recv raises (timeout)
upload_fail(j) ==
    LET jr == job[j] IN
    /\ reset = 0
    /\ UNCHANGED <<wsVars, codecVars, stream, improv>>
    /\ jr.kind = "upload"
    /\ jr.pc = "stream"
    /\ jr.downloaded < jr.size
    /\ Fail(j, jr)
    /\ UNCHANGED <<boot, flash, reset>>

----------------------------------------------------------------------------

\* update_progress, the assignments after that of 'stage': the record now
\* holds the whole report and the job's thread goes on
update_progress_store(j) ==
    LET jr == job[j] IN
    /\ reset = 0
    /\ UNCHANGED <<wsVars, codecVars, stream, improv>>
    /\ jr.reporting
    /\ ota_progress' = [ota_progress EXCEPT !.progress = jr.last.progress]
    /\ job' = [job EXCEPT ![j] = [jr EXCEPT !.reporting = FALSE]]
    /\ UNCHANGED <<boot, flash, reset>>

\* the statements of the job's thread, one after the other: a step that
\* follows a report starts when update_progress has returned
ThreadStep(j) ==
    /\ ~job[j].reporting
    /\ \/ download_begin(j)
       \/ \E n \in ReadLens : download_chunk(j, n)
       \/ download_end(j)
       \/ download_fail(j)
       \/ activate(j)
       \/ machine_reset(j)
       \/ \E n \in ReadLens : upload_chunk(j, n)
       \/ upload_activate(j)
       \/ upload_fail(j)

JobStep(j) == ThreadStep(j) \/ update_progress_store(j)

Request(j) ==
    \/ \E size \in Sizes : \E c \in Checksums(size) :
          handle_message_ota_update(j, size, c)
    \/ \E size \in Sizes : handle_ota_url(j, size)
    \/ \E total \in Sizes : handle_ota_upload(j, total)

Next == \E j \in JobIds : Request(j) \/ JobStep(j)

Spec == Init /\ [][Next]_vars

\* threads are scheduled: a job that can take a step eventually takes one
FairSpec == Spec /\ \A j \in JobIds : WF_vars(JobStep(j))

----------------------------------------------------------------------------
(* The counters of download_firmware's and receive_and_flash_firmware's      *)
(* loops over a long stream, without the partition.                          *)

MaxStreamReads == 20

\* declared sizes: none, one chunk, 17 chunks, more than the stream delivers
StreamSizes == {0, ChunkSize, 17 * ChunkSize, 3 * ReportEvery}

\* download_firmware / receive_and_flash_firmware up to the loop, with the
\* report before it
stream_open(kind, size) ==
    /\ stream.pc = "idle"
    /\ kind = "upload" => size # 0
    /\ stream' = [kind |-> kind, pc |-> "loop", expected_size |-> size,
                  downloaded |-> 0, reads |-> 0,
                  report |-> IF kind = "download" THEN 10 ELSE 5, since |-> 0]
    /\ UNCHANGED <<otaVars, wsVars, codecVars, improv>>

\* one pass of the loop with a chunk of n bytes
stream_read(n) ==
    LET downloaded == stream.downloaded + n
        went == [stream EXCEPT !.downloaded = downloaded, !.reads = @ + 1]
    IN
    /\ stream.pc = "loop"
    /\ stream.reads < MaxStreamReads
    /\ IF stream.kind = "download"
       THEN stream' =
              IF stream.expected_size = 0
              THEN [went EXCEPT !.pc = "error", !.report = 0]   \* ZeroDivisionError
              ELSE IF DownloadReports(downloaded, stream.expected_size)
              THEN [went EXCEPT !.since = 0,
                      !.report = DownloadProgress(downloaded, stream.expected_size)]
              ELSE [went EXCEPT !.since = @ + n]
       ELSE /\ stream.downloaded < stream.expected_size
            /\ n <= Min(ChunkSize, stream.expected_size - stream.downloaded)
            /\ stream' =
                 IF UploadReports(downloaded)
                 THEN [went EXCEPT !.since = 0,
                         !.report = UploadProgress(downloaded, stream.expected_size)]
                 ELSE [went EXCEPT !.since = @ + n]
    /\ UNCHANGED <<otaVars, wsVars, codecVars, improv>>

\* the loop ends: download_firmware reports ('download', 100),
\* receive_and_flash_firmware ('activate', 95) and ('complete', 100)
stream_end ==
    /\ stream.pc = "loop"
    /\ stream' = [stream EXCEPT !.pc = "done", !.report = 100, !.since = 0]
    /\ UNCHANGED <<otaVars, wsVars, codecVars, improv>>

StreamNext ==
    \/ \E kind \in {"download", "upload"} : \E size \in StreamSizes :
          stream_open(kind, size)
    \/ \E n \in ReadLens : stream_read(n)
    \/ stream_end

StreamSpec == Init /\ [][StreamNext]_vars

----------------------------------------------------------------------------
(* TansuodouDevice: sessions and handle_message.  A session's record holds   *)
(* the message it dispatched last, the frames sent to it for that message,   *)
(* and the threads that message started.                                     *)

\* messages by what handle_message does with them; ota_update is handled by
\* its own two actions
Msgs ==
    {"ping", "info", "file_list", "file_read", "file_delete",
     "file_badop",       \* operation is a string other than list/read/delete
     "file_noop",        \* no operation field: 'str' + None raises TypeError
     "exec_persistent", "exec_temp",
     "exec_loop",        \* temporary code containing 'while True' / 'while 1'
     "exec_badmode",     \* mode is a string other than persistent/temporary
     "ota_check",
     "unknown",          \* a type no branch of handle_message tests for
     "notype",           \* a JSON object without 'type': get returns None
     "badjson"}          \* json.loads raises

\* the types of the frame handle_message may send for message m; none where
\* no branch sends (the outer except only prints)
ReplyTypes(m) ==
    CASE m = "ping" -> {"pong"}
      [] m = "info" -> {"info"}
      [] m = "file_list" -> {"file_list", "error"}
      [] m = "file_read" -> {"file_content", "error"}
      [] m = "file_delete" -> {"output", "error"}
      [] m = "file_badop" -> {"error"}
      [] m = "exec_persistent" -> {"output", "error"}
      [] m = "exec_temp" -> {"output", "error"}
      [] m = "exec_loop" -> {"output", "error"}
      [] m = "exec_badmode" -> {"error"}
      [] m = "ota_check" -> {"ota_check_result", "error"}
      [] OTHER -> {}

\* the messages modelled by actions of their own: execute_temporary_code,
\* save_persistent_code and delete_file change more than the frames sent
OwnAction == {"exec_persistent", "exec_temp", "exec_loop", "file_delete"}

\* send_websocket_message(conn, frame): skipped when conn is not in
\* ws_clients; an OSError removes conn from ws_clients
SentFrames(c, clients, frames, f, ok) ==
    IF c \in clients /\ ok THEN Append(frames, f) ELSE frames

SentClients(c, clients, ok) ==
    IF c \in clients /\ ~ok THEN clients \ {c} ELSE clients

\* the socket's timeout after send_websocket_message, in tenths of a second:
\* conn.settimeout(5.0) precedes conn.send
SentTimeout(c, clients, timeout) ==
    IF c \in clients THEN SendTimeout ELSE timeout

\* what the handshake looks at in the request: whether it contains
\* 'Upgrade: websocket' and whether a line starts with 'Sec-WebSocket-Key:'
\* and carries a non-empty key
Requests == [upgrade : BOOLEAN, key : BOOLEAN]

\* how the handshake ends for a request; sent: conn.send of the 101 response
\* returns (or raises)
Handshake(request, sent) ==
    IF ~request.upgrade THEN "no_upgrade"
    ELSE IF ~request.key THEN "no_key"
    ELSE IF ~sent THEN "send_raised"
    ELSE "ok"

\* the handshake appending the connection as soon as the upgrade header is
\* seen
handle_websocket_client_append_first(c, request, sent) ==
    LET hs == Handshake(request, sent) IN
    /\ reset = 0
    /\ sess[c].st = "new"
    /\ sess' = [sess EXCEPT ![c].st = IF hs = "ok" THEN "open" ELSE "closed",
                            ![c].hs = hs,
                            ![c].timeout = IF hs = "ok" THEN LoopTimeout
                                           ELSE HandshakeTimeout]
    /\ ws_clients' = IF request.upgrade THEN ws_clients \cup {c} ELSE ws_clients
    /\ UNCHANGED <<otaVars, codecVars, sbVars, stream, improv>>

\* handle_websocket_client up to the read loop: the handshake.  The
\* connection is appended after the 101 response was sent; in every other
\* case the function falls through to conn.close()
handle_websocket_client(c, request, sent) ==
    LET hs == Handshake(request, sent) IN
    /\ reset = 0
    /\ sess[c].st = "new"
    /\ sess' = [sess EXCEPT ![c].st = IF hs = "ok" THEN "open" ELSE "closed",
                            ![c].hs = hs,
                            ![c].timeout = IF hs = "ok" THEN LoopTimeout
                                           ELSE HandshakeTimeout]
    /\ ws_clients' = IF hs = "ok" THEN ws_clients \cup {c} ELSE ws_clients
    /\ UNCHANGED <<otaVars, codecVars, sbVars, stream, improv>>

\* handle_message for a message that sends nothing
handle_message_silent(c, m) ==
    /\ reset = 0
    /\ sess[c].st = "open"
    /\ sess[c].pc = "idle"
    /\ ReplyTypes(m) = {}
    /\ sess' = [sess EXCEPT ![c] =
                  [@ EXCEPT !.msg = m, !.frames = <<>>,
                            !.note = "none", !.ota = "none", !.npush = 0,
                            !.timeout = LoopTimeout]]
    /\ UNCHANGED <<ws_clients, otaVars, codecVars, sbVars, stream, improv>>

\* handle_message for a message answered with one frame of type f; the
\* send succeeds (ok) or raises OSError
handle_message(c, m, f, ok) ==
    /\ reset = 0
    /\ sess[c].st = "open"
    /\ sess[c].pc = "idle"
    /\ m \notin OwnAction
    /\ f \in ReplyTypes(m)
    /\ sess' = [sess EXCEPT ![c] =
                  [@ EXCEPT !.msg = m,
                            !.frames = SentFrames(c, ws_clients, <<>>, f, ok),
                            !.note = "other",
                            !.ota = "none", !.npush = 0,
                            !.timeout = LoopTimeout]]
    /\ ws_clients' = SentClients(c, ws_clients, ok)
    /\ UNCHANGED <<otaVars, codecVars, sbVars, stream, improv>>

\* handle_message, msg_type == 'ota_update', up to start_new_thread
handle_ota_update_start(c) ==
    /\ reset = 0
    /\ sess[c].st = "open"
    /\ sess[c].pc = "idle"
    /\ sess' = [sess EXCEPT ![c] =
                  [@ EXCEPT !.msg = "ota_update", !.frames = <<>>, !.pc = "ota_ack",
                            !.note = "none", !.ota = "running", !.npush = 0]]
    /\ UNCHANGED <<ws_clients, otaVars, codecVars, sbVars, stream, improv>>

\* handle_message, msg_type == 'ota_update': the 'ota_started' frame
handle_ota_update_ack(c, ok) ==
    /\ reset = 0
    /\ sess[c].st = "open"
    /\ sess[c].pc = "ota_ack"
    /\ sess' = [sess EXCEPT ![c] =
                  [@ EXCEPT !.pc = "idle", !.timeout = LoopTimeout,
                            !.frames = SentFrames(c, ws_clients, @, "ota_started", ok)]]
    /\ ws_clients' = SentClients(c, ws_clients, ok)
    /\ UNCHANGED <<otaVars, codecVars, sbVars, stream, improv>>

\* progress_callback, called by report_progress on the job's thread
progress_callback(c, ok) ==
    /\ reset = 0
    /\ sess[c].ota = "running"
    /\ sess[c].npush < MaxPush
    /\ sess' = [sess EXCEPT ![c] =
                  [@ EXCEPT !.npush = @ + 1,
                            !.timeout = SentTimeout(c, ws_clients, @),
                            !.frames = SentFrames(c, ws_clients, @, "ota_progress", ok)]]
    /\ ws_clients' = SentClients(c, ws_clients, ok)
    /\ UNCHANGED <<otaVars, codecVars, sbVars, stream, improv>>

\* perform_ota_update returns: the job's thread ends
ota_thread_exit(c) ==
    /\ reset = 0
    /\ sess[c].ota = "running"
    /\ sess[c].npush > 0
    /\ sess' = [sess EXCEPT ![c].ota = "done"]
    /\ UNCHANGED <<ws_clients, otaVars, codecVars, sbVars, stream, improv>>

\* check_main_py_status, called by run before the servers start: main.py
\* exists and was imported at boot
check_main_py_status ==
    /\ reset = 0
    /\ \A c \in Conns : sess[c].st = "new"
    /\ ~main_py_running
    /\ main_py_running' = TRUE
    /\ files' = [files EXCEPT !["main.py"] = BootCode]
    /\ UNCHANGED <<ws_clients, sess, user_code_thread, stop_user_code_flag,
                   prog, sys_stdout,
                   otaVars, codecVars, stream, improv>>

\* stop_user_code, from its second step on: main.py is marked as stopped
StopMain(running, flag) == IF running THEN TRUE ELSE flag

\* save_persistent_code(cmd, filename, conn): the file is written (wr) or
\* open/write raises
save_persistent_code(c, filename, cmd, wr, ok) ==
    /\ reset = 0
    /\ sess[c].st = "open"
    /\ sess[c].pc = "idle"
    /\ main_py_running' = FALSE
    \* stop_user_code, called when main.py runs
    /\ stop_user_code_flag' =
          IF main_py_running THEN TRUE ELSE stop_user_code_flag
    /\ user_code_thread' =
          IF main_py_running THEN "None" ELSE user_code_thread
    /\ files' = IF wr THEN [files EXCEPT ![filename] = cmd] ELSE files
    /\ sess' = [sess EXCEPT ![c] =
                  [@ EXCEPT !.msg = "exec_persistent",
                            !.frames = SentFrames(c, ws_clients, <<>>,
                                          IF wr THEN "output" ELSE "error", ok),
                            !.note = IF ~wr THEN "save_failed"
                                     ELSE IF filename = "main.py" THEN "restart"
                                     ELSE "import",
                            !.ota = "none", !.npush = 0,
                            !.timeout = LoopTimeout]]
    /\ ws_clients' = SentClients(c, ws_clients, ok)
    /\ UNCHANGED <<prog, sys_stdout,
                   otaVars, codecVars, stream, improv>>

\* delete_file(path, conn): os.remove succeeds (removed) or raises
delete_file(c, filename, removed, ok) ==
    /\ reset = 0
    /\ sess[c].st = "open"
    /\ sess[c].pc = "idle"
    /\ files' = IF removed THEN [files EXCEPT ![filename] = "absent"] ELSE files
    /\ main_py_running' = IF removed /\ filename = "main.py" THEN FALSE
                          ELSE main_py_running
    /\ sess' = [sess EXCEPT ![c] =
                  [@ EXCEPT !.msg = "file_delete",
                            !.frames = SentFrames(c, ws_clients, <<>>,
                                          IF removed THEN "output" ELSE "error", ok),
                            !.note = "other",
                            !.ota = "none", !.npush = 0,
                            !.timeout = LoopTimeout]]
    /\ ws_clients' = SentClients(c, ws_clients, ok)
    /\ UNCHANGED <<user_code_thread, stop_user_code_flag, prog, sys_stdout,
                   otaVars, codecVars, stream, improv>>

\* the temporary execute requests by their code: exec_loop contains 'while
\* True' or 'while 1'; exec_hidden_loop loops without end in another
\* spelling ('while  True', 'while(True)', 'while not 0'); exec_temp returns
TempMsgs == {"exec_temp", "exec_loop", "exec_hidden_loop"}

\* execute_temporary_code up to the sleep of stop_user_code
execute_temporary_code(c, m) ==
    /\ reset = 0
    /\ sess[c].st = "open"
    /\ sess[c].pc = "idle"
    /\ m \in TempMsgs
    /\ IF user_code_thread # "None"
       THEN /\ stop_user_code_flag' = TRUE
            /\ UNCHANGED main_py_running
       ELSE /\ stop_user_code_flag' = StopMain(main_py_running, stop_user_code_flag)
            /\ main_py_running' = FALSE
    /\ sess' = [sess EXCEPT ![c] =
                  [@ EXCEPT !.msg = m, !.frames = <<>>, !.note = "none",
                            !.pc = IF user_code_thread # "None"
                                   THEN "sleep" ELSE "run",
                            !.ota = "none", !.npush = 0]]
    /\ UNCHANGED <<ws_clients, user_code_thread, prog, files, sys_stdout,
                   otaVars, codecVars, stream, improv>>

\* stop_user_code after time.sleep(0.3)
stop_user_code_wake(c) ==
    /\ reset = 0
    /\ sess[c].pc = "sleep"
    /\ user_code_thread' = "None"
    /\ stop_user_code_flag' = StopMain(main_py_running, stop_user_code_flag)
    /\ main_py_running' = FALSE
    /\ sess' = [sess EXCEPT ![c].pc = "run"]
    /\ UNCHANGED <<ws_clients, prog, files, sys_stdout,
                   otaVars, codecVars, stream, improv>>

\* execute_temporary_code, has_infinite_loop: the flag is cleared and the
\* thread started; tid is what _thread.start_new_thread returns in this
\* build (None or an identifier); kind is the submitted program's
start_user_thread(c, i, tid, kind, ok) ==
    /\ reset = 0
    /\ sess[c].pc = "run"
    /\ sess[c].msg = "exec_loop"
    /\ NextProg(i)
    /\ stop_user_code_flag' = FALSE
    /\ user_code_thread' = tid
    /\ prog' = [prog EXCEPT ![i] = [st |-> "running", conn |-> c, kind |-> kind]]
    /\ sess' = [sess EXCEPT ![c] =
                  [@ EXCEPT !.pc = "idle", !.timeout = LoopTimeout, !.note = "bg_started",
                            !.frames = SentFrames(c, ws_clients, @, "output", ok)]]
    /\ ws_clients' = SentClients(c, ws_clients, ok)
    /\ UNCHANGED <<main_py_running, files, sys_stdout,
                   otaVars, codecVars, stream, improv>>

\* execute_temporary_code, has_infinite_loop: _thread.start_new_thread
\* raises, the outer except clause replies
start_user_thread_raises(c, ok) ==
    /\ reset = 0
    /\ sess[c].pc = "run"
    /\ sess[c].msg = "exec_loop"
    /\ stop_user_code_flag' = FALSE
    /\ sess' = [sess EXCEPT ![c] =
                  [@ EXCEPT !.pc = "idle", !.timeout = LoopTimeout, !.note = "traceback",
                            !.frames = SentFrames(c, ws_clients, @, "error", ok)]]
    /\ ws_clients' = SentClients(c, ws_clients, ok)
    /\ UNCHANGED <<user_code_thread, main_py_running, prog, files, sys_stdout,
                   otaVars, codecVars, stream, improv>>

\* execute_temporary_code, short code: the streams in place are saved in
\* original_stdout and original_stderr, the call's buffers take their place
\* and exec(code, globals()) is entered
exec_inline(c) ==
    /\ reset = 0
    /\ sess[c].pc = "run"
    /\ sess[c].msg \in {"exec_temp", "exec_hidden_loop"}
    /\ sess' = [sess EXCEPT ![c].pc = "exec",
                            ![c].original_stdout = sys_stdout]
    /\ sys_stdout' = c
    /\ UNCHANGED <<ws_clients, user_code_thread, stop_user_code_flag,
                   main_py_running, prog, files, otaVars, codecVars, stream, improv>>

\* how exec of the submitted code ends: it returns with or without output on
\* the redirected stderr, raises an Exception, or raises SystemExit /
\* KeyboardInterrupt, which no except clause of the session thread names
ExecOutcomes == {"returns", "stderr", "raises", "exits"}

exec_inline_ends(c, outcome, ok) ==
    /\ reset = 0
    /\ sess[c].pc = "exec"
    /\ sess[c].msg = "exec_temp"
    /\ outcome \in ExecOutcomes
    /\ IF outcome = "exits"
       THEN \* the thread unwinds through finally: conn.close()
            /\ sess' = [sess EXCEPT ![c] =
                          [@ EXCEPT !.pc = "idle", !.st = "closed",
                                    !.original_stdout = 0]]
            /\ UNCHANGED ws_clients
       ELSE /\ sess' = [sess EXCEPT ![c] =
                  [@ EXCEPT !.pc = "idle", !.timeout = LoopTimeout,
                            !.original_stdout = 0,
                            !.note = CASE outcome = "returns" -> "exec_ok"
                                       [] outcome = "stderr" -> "stderr"
                                       [] OTHER -> "traceback",
                            !.frames = SentFrames(c, ws_clients, @,
                                          IF outcome = "returns" THEN "output"
                                          ELSE "error", ok)]]
            /\ ws_clients' = SentClients(c, ws_clients, ok)
    \* sys.stdout = original_stdout, after exec or in the finally clause
    /\ sys_stdout' = sess[c].original_stdout
    /\ UNCHANGED <<user_code_thread, stop_user_code_flag, main_py_running,
                   prog, files, otaVars, codecVars, stream, improv>>

\* a background program reaches a safe point, finds should_stop() true and
\* returns
should_stop(i) ==
    /\ reset = 0
    /\ prog[i].st = "running"
    /\ prog[i].kind = "polls"
    /\ stop_user_code_flag
    /\ prog' = [prog EXCEPT ![i] = DoneProg]
    /\ UNCHANGED <<ws_clients, sess, user_code_thread, stop_user_code_flag,
                   main_py_running, files, sys_stdout,
                   otaVars, codecVars, stream, improv>>

\* execute_user_code_in_thread: the code raises an Exception and the except
\* clause sends an 'error' frame to the connection that submitted it
user_thread_raises(i, ok) ==
    /\ reset = 0
    /\ prog[i].st = "running"
    /\ LET c == prog[i].conn IN
       /\ sess' = [sess EXCEPT ![c].frames =
                      SentFrames(c, ws_clients, @, "error", ok),
                                ![c].timeout = SentTimeout(c, ws_clients, @)]
       /\ ws_clients' = SentClients(c, ws_clients, ok)
    /\ prog' = [prog EXCEPT ![i] = DoneProg]
    /\ UNCHANGED <<user_code_thread, stop_user_code_flag, main_py_running,
                   files, sys_stdout,
                   otaVars, codecVars, stream, improv>>

\* execute_user_code_in_thread: the code returns, or raises SystemExit
user_thread_exit(i) ==
    /\ reset = 0
    /\ prog[i].st = "running"
    /\ prog' = [prog EXCEPT ![i] = DoneProg]
    /\ UNCHANGED <<ws_clients, sess, user_code_thread, stop_user_code_flag,
                   main_py_running, files, sys_stdout,
                   otaVars, codecVars, stream, improv>>

\* handle_websocket_client after the read loop: recv returned no data, raised,
\* or the session timed out
session_close(c) ==
    /\ reset = 0
    /\ sess[c].st = "open"
    /\ sess[c].pc = "idle"
    /\ sess' = [sess EXCEPT ![c].st = "closed"]
    /\ ws_clients' = ws_clients \ {c}
    /\ UNCHANGED <<otaVars, codecVars, sbVars, stream, improv>>

\* handle_websocket_client after the read loop, the test of its cleanup:
\* if conn in self.ws_clients
session_cleanup_test(c) ==
    /\ reset = 0
    /\ sess[c].st = "open"
    /\ sess[c].pc = "idle"
    /\ sess' = [sess EXCEPT ![c] =
                  IF c \in ws_clients THEN [@ EXCEPT !.pc = "remove"]
                  ELSE [@ EXCEPT !.st = "closed"]]
    /\ UNCHANGED <<ws_clients, otaVars, codecVars, sbVars, stream, improv>>

\* handle_websocket_client: self.ws_clients.remove(conn), which raises
\* ValueError when the connection is no longer in the list; the outer except
\* clause catches it, and finally closes the socket
session_cleanup_remove(c) ==
    /\ reset = 0
    /\ sess[c].pc = "remove"
    /\ sess' = [sess EXCEPT ![c] =
                  [@ EXCEPT !.pc = "idle", !.st = "closed",
                            !.note = IF c \in ws_clients THEN @ ELSE "ValueError"]]
    /\ ws_clients' = ws_clients \ {c}
    /\ UNCHANGED <<otaVars, codecVars, sbVars, stream, improv>>

\* send_websocket_message called by the job's thread: the send raises
\* OSError and the except clause's test, if conn in self.ws_clients, passes
progress_send_fails(c) ==
    /\ reset = 0
    /\ sess[c].ota = "running"
    /\ sess[c].npush < MaxPush
    /\ c \in ws_clients
    /\ sess' = [sess EXCEPT ![c] = [@ EXCEPT !.npush = @ + 1, !.ota = "remove",
                            !.timeout = SendTimeout]]
    /\ UNCHANGED <<ws_clients, otaVars, codecVars, sbVars, stream, improv>>

\* send_websocket_message, except OSError: self.ws_clients.remove(conn); a
\* ValueError raised here leaves send_websocket_message and reaches
\* perform_ota_update through the progress callback
progress_send_remove(c) ==
    /\ reset = 0
    /\ sess[c].ota = "remove"
    /\ sess' = [sess EXCEPT ![c].ota =
                  IF c \in ws_clients THEN "running" ELSE "raised"]
    /\ ws_clients' = ws_clients \ {c}
    /\ UNCHANGED <<otaVars, codecVars, sbVars, stream, improv>>

\* the dispatcher of the messages answered by one send, and ota_update
SessionStep(c) ==
    \/ \E request \in Requests : \E sent \in BOOLEAN :
          handle_websocket_client(c, request, sent)
    \/ \E m \in Msgs : handle_message_silent(c, m)
    \/ \E m \in Msgs : \E f \in ReplyTypes(m) : \E ok \in BOOLEAN :
          handle_message(c, m, f, ok)
    \/ handle_ota_update_start(c)
    \/ \E ok \in BOOLEAN : handle_ota_update_ack(c, ok)
    \/ \E ok \in BOOLEAN : progress_callback(c, ok)
    \/ ota_thread_exit(c)
    \/ progress_send_fails(c)
    \/ progress_send_remove(c)
    \/ session_cleanup_test(c)
    \/ session_cleanup_remove(c)

DNext == \E c \in Conns : SessionStep(c)

DSpec == Init /\ [][DNext]_vars

\* the execution sandbox: temporary execute requests and the background
\* programs, with ping as the command that shows a read loop answering
SandboxStep(c) ==
    \/ \E request \in Requests : \E sent \in BOOLEAN :
          handle_websocket_client(c, request, sent)
    \/ \E ok \in BOOLEAN : handle_message(c, "ping", "pong", ok)
    \/ \E m \in TempMsgs : execute_temporary_code(c, m)
    \/ stop_user_code_wake(c)
    \/ \E i \in ProgIds : \E tid \in {"None", "id"} :
          \E kind \in {"polls", "nopoll"} : \E ok \in BOOLEAN :
             start_user_thread(c, i, tid, kind, ok)
    \/ \E ok \in BOOLEAN : start_user_thread_raises(c, ok)
    \/ exec_inline(c)
    \/ \E outcome \in ExecOutcomes : \E ok \in BOOLEAN :
          exec_inline_ends(c, outcome, ok)
    \/ session_close(c)

ProgStep(i) ==
    \/ should_stop(i)
    \/ \E ok \in BOOLEAN : user_thread_raises(i, ok)
    \/ user_thread_exit(i)

SNext ==
    \/ check_main_py_status
    \/ \E c \in Conns : SandboxStep(c)
    \/ \E i \in ProgIds : ProgStep(i)

SSpec == Init /\ [][SNext]_vars

\* persistent execute requests and file deletion
FileStep(c) ==
    \/ \E request \in Requests : \E sent \in BOOLEAN :
          handle_websocket_client(c, request, sent)
    \/ \E ok \in BOOLEAN : handle_message(c, "ping", "pong", ok)
    \/ \E fn \in Filenames : \E cmd \in Cmds : \E wr, ok \in BOOLEAN :
          save_persistent_code(c, fn, cmd, wr, ok)
    \/ \E fn \in Filenames : \E removed, ok \in BOOLEAN :
          delete_file(c, fn, removed, ok)
    \/ session_close(c)

FNext == check_main_py_status \/ \E c \in Conns : FileStep(c)

FSpec == Init /\ [][FNext]_vars

----------------------------------------------------------------------------
(* Frame codec: the encoder of send_websocket_message and                  *)
(* parse_websocket_frame, on byte sequences, and the read loop of          *)
(* handle_websocket_client that feeds recv's bytes to the parser.          *)

MinFrame == 6        \* len(data) < 6
IdleTimeout == 60    \* seconds without a dispatched message
TimeoutsPerSecond == 2    \* conn.settimeout(0.5)
MaxIdle == 124       \* the idle clock stops here
MaxRaw == 6          \* length of the arbitrary byte strings received
Huge == 4194304     \* from_bytes saturates here, above every len(data)

\* length.to_bytes(w, 'big')
to_bytes(n, w) ==
    [i \in 1..w |-> IF w - i > 3 THEN 0 ELSE (n \div (256 ^ (w - i))) % 256]

\* int.from_bytes(bs, 'big')
RECURSIVE from_bytes(_)
from_bytes(bs) ==
    IF bs = <<>> THEN 0
    ELSE Min(Huge, from_bytes(SubSeq(bs, 1, Len(bs) - 1)) * 256 + bs[Len(bs)])

\* data[a:b]
Slice(bs, a, b) == SubSeq(bs, a + 1, Min(b, Len(bs)))

\* x ^ y on bytes, bit by bit; tabulated
RECURSIVE XorBits(_, _)
XorBits(x, y) ==
    IF x = 0 THEN y
    ELSE IF y = 0 THEN x
    ELSE 2 * XorBits(x \div 2, y \div 2) + ((x + y) % 2)

XorTable == [x \in 0..255 |-> [y \in 0..255 |-> XorBits(x, y)]]

Xor(x, y) == XorTable[x][y]

\* the frame send_websocket_message builds for msg_bytes
encode_frame(msg_bytes) ==
    LET length == Len(msg_bytes) IN
    <<129>>
    \o (IF length < 126 THEN <<length>>
        ELSE IF length < 65536 THEN <<126>> \o to_bytes(length, 2)
        ELSE <<127>> \o to_bytes(length, 8))
    \o msg_bytes

\* bytes.decode('utf-8', 'ignore'): byte i of bs is kept when it belongs to
\* a complete sequence of a lead byte and its continuation bytes
Continuation(b) == b >= 128 /\ b < 192

SeqLen(b) ==
    IF b < 128 THEN 1
    ELSE IF b >= 194 /\ b < 224 THEN 2
    ELSE IF b >= 224 /\ b < 240 THEN 3
    ELSE IF b >= 240 /\ b < 245 THEN 4
    ELSE 0

CompleteAt(bs, i) ==
    /\ SeqLen(bs[i]) > 0
    /\ i + SeqLen(bs[i]) - 1 <= Len(bs)
    /\ \A k \in (i + 1)..(i + SeqLen(bs[i]) - 1) : Continuation(bs[k])

Kept(bs, i) ==
    IF Continuation(bs[i])
    THEN \E k \in 1..3 :
            /\ i - k >= 1
            /\ SeqLen(bs[i - k]) > k
            /\ \A h \in (i - k + 1)..(i - 1) : Continuation(bs[h])
            /\ CompleteAt(bs, i - k)
    ELSE CompleteAt(bs, i)

decode_utf8_ignore(bytes) ==
    LET bs == bytes \o <<>>
        idx == [i \in 1..Len(bs) |-> <<i, bs[i]>>] \o <<>>
        keep(pr) == Kept(bs, pr[1])
        sel == SelectSeq(idx, keep)
    IN  IF \A i \in 1..Len(bs) : bs[i] < 128 THEN bs
        ELSE [i \in 1..Len(sel) |-> sel[i][2]]

\* the try block taking the mask from behind the two header bytes whatever
\* the length tier
parse_frame_body_mask_at_2(bs) ==
    LET len7 == bs[2] % 128
        short == \/ len7 = 126 /\ Len(bs) < 8
                 \/ len7 = 127 /\ Len(bs) < 14
        mask_start == IF len7 = 126 THEN 4 ELSE IF len7 = 127 THEN 10 ELSE 2
        payload_len == IF len7 = 126 THEN from_bytes(Slice(bs, 2, 4))
                       ELSE IF len7 = 127 THEN from_bytes(Slice(bs, 2, 10))
                       ELSE len7
        total_len == mask_start + 4 + payload_len
        mask == Slice(bs, 2, 6)
        payload == Slice(bs, mask_start + 4, mask_start + 4 + payload_len)
        decoded == [i \in 1..Len(payload) |->
                       Xor(payload[i], mask[((i - 1) % 4) + 1])] \o <<>>
    IN  IF short THEN None
        ELSE IF Len(bs) < total_len THEN None
        ELSE IF Len(mask) # 4 THEN None
        ELSE Str(decode_utf8_ignore(decoded))

\* parse_websocket_frame, the try block
parse_frame_body(bs) ==
    LET len7 == bs[2] % 128
        short == \/ len7 = 126 /\ Len(bs) < 8
                 \/ len7 = 127 /\ Len(bs) < 14
        mask_start == IF len7 = 126 THEN 4 ELSE IF len7 = 127 THEN 10 ELSE 2
        payload_len == IF len7 = 126 THEN from_bytes(Slice(bs, 2, 4))
                       ELSE IF len7 = 127 THEN from_bytes(Slice(bs, 2, 10))
                       ELSE len7
        total_len == mask_start + 4 + payload_len
        mask == Slice(bs, mask_start, mask_start + 4)
        payload == Slice(bs, mask_start + 4, mask_start + 4 + payload_len)
        decoded == [i \in 1..Len(payload) |->
                       Xor(payload[i], mask[((i - 1) % 4) + 1])] \o <<>>
    IN  IF short THEN None
        ELSE IF Len(bs) < total_len THEN None
        ELSE IF Len(mask) # 4 THEN None
        ELSE Str(decode_utf8_ignore(decoded))

\* the parser without its length test: data[1] raises IndexError inside the
\* try block when there is no second byte
parse_websocket_frame_unguarded(bs) ==
    IF Len(bs) < 2 THEN ParseFailed ELSE parse_frame_body(bs)

parse_websocket_frame(bs) ==
    IF Len(bs) < MinFrame THEN None ELSE parse_frame_body(bs)

\* a client's frame: FIN + text, mask bit set, mask, masked payload
client_frame(bytes, mask) ==
    LET payload == bytes \o <<>>
        length == Len(payload)
    IN  <<129>>
        \o (IF length < 126 THEN <<128 + length>>
            ELSE IF length < 65536 THEN <<254>> \o to_bytes(length, 2)
            ELSE <<255>> \o to_bytes(length, 8))
        \o mask
        \o [i \in 1..length |-> Xor(payload[i], mask[((i - 1) % 4) + 1])]

\* payloads and masks the peer uses
PayloadLens == {0, 10, 125, 126, 1000, 65535, 65536}

Patterns ==
    { <<123, 34, 116, 121, 112, 101, 34, 58, 34, 112, 105, 110, 103, 34, 125>>,
      <<65, 195, 169, 255, 66>> }

\* the patterns that are UTF-8 text, as message.encode('utf-8') produces
TextPatterns == {pat \in Patterns : \A i \in 1..Len(pat) : pat[i] < 128}

Payload(n, pat) == [i \in 1..n |-> pat[((i - 1) % Len(pat)) + 1]] \o <<>>

\* payload lengths of frames that arrive two in one recv
SmallLens == {1, 10}

Masks == { <<0, 0, 0, 0>>, <<55, 250, 33, 61>> }

\* header bytes: mask bit with length 0, FIN + text / mask bit with length 1,
\* mask bit with 126, mask bit with 127
RawBytes == {128, 129, 254, 255}

RawInputs == UNION {[1..n -> RawBytes] : n \in 0..MaxRaw}

\* the time a recv that returns bytes has waited for them: next to none, or
\* most of its timeout
Waits == {0, 1}

\* read loop: conn.recv returns arbitrary bytes; no bytes ends the loop
recv_raw(bs, wait) ==
    /\ client_pc = "recv"
    /\ idle + wait <= MaxIdle
    /\ idle' = idle + wait
    /\ data' = bs
    /\ peer = NoPeer \/ bs = <<>>
    /\ peer' = [NoPeer EXCEPT !.origin = "raw"]
    /\ client_pc' = IF bs = <<>> THEN "closed" ELSE "parse"
    /\ UNCHANGED <<message, otaVars, wsVars, stream, improv>>

\* the length of a masked frame of n payload bytes: the header and the mask,
\* the two-byte extension from 126 on, the eight-byte one from 65536 on
FrameLen(n) == n + (IF n < 126 THEN 6 ELSE IF n < 65536 THEN 8 ELSE 14)

\* read loop: conn.recv returns the first cut bytes of a client's frame; the
\* transport still holds the others
recv_frame(payload, mask, cuts, wait) ==
    /\ client_pc = "recv"
    /\ peer = NoPeer
    /\ idle + wait <= MaxIdle
    /\ idle' = idle + wait
    /\ LET frame == client_frame(payload, mask) IN
       \E cut \in cuts \cap 1..Len(frame) :
          /\ data' = SubSeq(frame, 1, cut)
          /\ peer' = [origin |-> "client", payload |-> payload,
                      mask |-> mask, got |-> cut, total |-> Len(frame),
                      frames |-> 1, handled |-> 0]
    /\ client_pc' = "parse"
    /\ UNCHANGED <<message, otaVars, wsVars, stream, improv>>

\* read loop: conn.recv returns the bytes of the client's frame that the
\* recv before it has left in the transport
recv_rest ==
    /\ client_pc = "recv"
    /\ peer.origin = "client"
    /\ peer.got < peer.total
    /\ LET frame == client_frame(peer.payload, peer.mask) IN
          /\ data' = SubSeq(frame, peer.got + 1, Len(frame))
          /\ peer' = [peer EXCEPT !.got = Len(frame)]
    /\ client_pc' = "parse"
    /\ UNCHANGED <<message, idle, otaVars, wsVars, stream, improv>>

\* read loop: conn.recv returns two frames that the client has sent one
\* after the other
recv_two(first, second, mask) ==
    /\ client_pc = "recv"
    /\ peer = NoPeer
    /\ data' = client_frame(first, mask) \o client_frame(second, mask)
    /\ peer' = [origin |-> "client", payload |-> first, mask |-> mask,
                got |-> Len(data'), total |-> Len(data'), frames |-> 2,
                handled |-> 0]
    /\ client_pc' = "parse"
    /\ UNCHANGED <<message, idle, otaVars, wsVars, stream, improv>>

\* read loop: conn.recv returns a frame built by send_websocket_message
recv_encoded(payload) ==
    /\ client_pc = "recv"
    /\ peer = NoPeer
    /\ UNCHANGED idle
    /\ data' = encode_frame(payload)
    /\ peer' = [NoPeer EXCEPT !.origin = "server", !.payload = payload]
    /\ client_pc' = "parse"
    /\ UNCHANGED <<message, otaVars, wsVars, stream, improv>>

\* read loop: message = self.parse_websocket_frame(data); if message: ...
parse_step ==
    /\ client_pc = "parse"
    /\ message' = parse_websocket_frame(data)
    /\ client_pc' = IF message'.some /\ message'.text # <<>>
                    THEN "dispatch" ELSE "continue"
    /\ UNCHANGED <<data, peer, idle, otaVars, wsVars, stream, improv>>

\* read loop: self.handle_message(conn, message) returns, or there was no
\* message; the next iteration overwrites data and message
loop_step ==
    /\ client_pc \in {"dispatch", "continue"}
    /\ client_pc' = "recv"
    /\ idle' = IF client_pc = "dispatch" THEN 0 ELSE idle
    /\ data' = <<>>
    /\ message' = None
    /\ peer' = IF peer.origin = "client" /\ peer.got < peer.total
               THEN [peer EXCEPT !.handled =
                        @ + (IF client_pc = "dispatch" THEN 1 ELSE 0)]
               ELSE NoPeer
    /\ UNCHANGED <<otaVars, wsVars, stream, improv>>

\* read loop: conn.recv raises OSError after its timeout; the session ends
\* when the last dispatched message is more than 60 s back
recv_timeout ==
    /\ client_pc = "recv"
    /\ idle < MaxIdle
    /\ idle' = idle + 1
    /\ client_pc' = IF idle' > IdleTimeout * TimeoutsPerSecond
                    THEN "closed" ELSE "recv"
    /\ UNCHANGED <<data, message, peer, otaVars, wsVars, stream, improv>>

\* where the transport may cut a frame of payload length n: nowhere, one
\* byte short, and inside the header, the extension and the mask
Cuts(n) ==
    LET hdr == IF n < 126 THEN 6 ELSE IF n < 65536 THEN 8 ELSE 14 IN
    {hdr + n, hdr + n - 1, hdr, 5, 6, 7, 13}

CNext ==
    \/ \E bs \in RawInputs : recv_raw(bs, 0)
    \/ \E n \in PayloadLens : \E pat \in Patterns : \E mask \in Masks :
          recv_frame(Payload(n, pat), mask, Cuts(n), 0)
    \/ \E n \in PayloadLens : \E pat \in TextPatterns :
          recv_encoded(Payload(n, pat))
    \/ recv_rest
    \/ \E n \in SmallLens : \E pat \in TextPatterns : \E mask \in Masks :
          recv_two(Payload(n, pat), Payload(1, pat), mask)
    \/ parse_step
    \/ loop_step

CodecSpec == Init /\ [][CNext]_vars

\* the read loop over time: recv returns bytes that are no frame, or a short
\* text frame, early or late, or times out
IdleInputs == { <<129>>, <<129, 254, 255>> }

INext ==
    \/ \E bs \in IdleInputs : \E wait \in Waits : recv_raw(bs, wait)
    \/ \E mask \in Masks : \E wait \in Waits :
          recv_frame(Payload(10, <<97>>), mask, {16}, wait)
    \/ recv_timeout
    \/ parse_step
    \/ loop_step

IdleSpec == Init /\ [][INext]_vars

----------------------------------------------------------------------------
(* wifi_config_helper: the Improv serial packets                            *)

IMPROV_SERIAL_VERSION == 1

\* b'IMPROV'
ImprovHeader == <<73, 77, 80, 82, 79, 86>>

\* the shortest input parse_improv_packet looks at
MinPacket == 11

RECURSIVE SumRange(_, _, _)
\* bs[lo] + ... + bs[hi], summed by halves
SumRange(bs, lo, hi) ==
    IF lo > hi THEN 0
    ELSE IF lo = hi THEN bs[lo]
    ELSE LET mid == (lo + hi) \div 2 IN
         SumRange(bs, lo, mid) + SumRange(bs, mid + 1, hi)

\* sum(data[:n])
SumBytes(bs, n) == SumRange(bs, 1, n)

\* the packet send_improv_response(packet_type, data) writes
send_improv_response(packet_type, bytes) ==
    LET payload == bytes \o <<>>
        body == ImprovHeader \o <<IMPROV_SERIAL_VERSION>> \o <<packet_type>>
                  \o <<Len(payload)>> \o payload
        checksum == SumBytes(body, Len(body)) % 256
    IN  body \o <<checksum>>

\* parse_improv_packet(data)
parse_improv_packet(bytes) ==
    LET bs == bytes \o <<>> IN
    IF Len(bs) < MinPacket THEN NoPacket
    ELSE IF SubSeq(bs, 1, 6) # ImprovHeader THEN NoPacket
    ELSE LET ptype == bs[8]
             length == bs[9]
         IN  IF Len(bs) < 9 + length + 1 THEN NoPacket
             ELSE IF bs[9 + length + 1] # SumBytes(bs, 9 + length) % 256
             THEN NoPacket
             ELSE [some |-> TRUE, type |-> ptype,
                   data |-> SubSeq(bs, 10, 9 + length)]

\* the packet types of the protocol, and bytes that are none of them
ImprovTypes == {0, 1, 2, 3, 4, 255}

\* payload lengths: none, the one and two bytes of a state and a command, and
\* the longest a length byte can state
ImprovLens == {0, 1, 2, 254, 255}

\* payload bytes: all zero, all 255, or counting up
ImprovFills == {"zero", "ones", "count"}

ImprovPayload(n, fill) ==
    [i \in 1..n |-> CASE fill = "zero" -> 0
                      [] fill = "ones" -> 255
                      [] OTHER -> i % 256] \o <<>>

\* what the line may add to a checksum byte
Damage == {1, 128, 255}

\* a packet is built
improv_send(packet_type, payload) ==
    /\ improv.pc = "idle"
    /\ improv' = [NoImprov EXCEPT !.pc = "sent",
                                  !.packet_type = packet_type,
                                  !.payload = payload,
                                  !.packet = send_improv_response(packet_type, payload)]
    /\ UNCHANGED <<otaVars, wsVars, codecVars, stream>>

\* the packet arrives with another checksum byte
improv_damage(d) ==
    /\ improv.pc = "sent"
    /\ improv.intact
    /\ improv' = [improv EXCEPT !.intact = FALSE,
                                !.packet[Len(improv.packet)] = (@ + d) % 256]
    /\ UNCHANGED <<otaVars, wsVars, codecVars, stream>>

\* the receiver parses what arrived
improv_parse ==
    /\ improv.pc = "sent"
    /\ improv' = [improv EXCEPT !.pc = "parsed",
                                !.result = parse_improv_packet(improv.packet)]
    /\ UNCHANGED <<otaVars, wsVars, codecVars, stream>>

\* the next packet
improv_done ==
    /\ improv.pc = "parsed"
    /\ improv' = NoImprov
    /\ UNCHANGED <<otaVars, wsVars, codecVars, stream>>

ImprovNext ==
    \/ \E t \in ImprovTypes : \E n \in ImprovLens : \E fill \in ImprovFills :
          improv_send(t, ImprovPayload(n, fill))
    \/ \E d \in Damage : improv_damage(d)
    \/ improv_parse
    \/ improv_done

ImprovSpec == Init /\ [][ImprovNext]_vars

----------------------------------------------------------------------------
(* Properties of the OTA engine *)

Engine(j) == job[j].kind \in {"ws", "url"}
UpdatePartition == get_next_update(RunningPartition)
OrigImage == [b \in Blocks |-> OrigBlock]

\* C1: in every job, of every entry point (ota_update, POST /ota, POST
\* /update), set_boot is invoked only after a checksum verification of the
\* partition matched in that job; a job whose verification did not match is
\* in ERROR without having invoked set_boot.
C1_SetBootOnlyAfterVerify ==
    \A j \in JobIds :
        /\ job[j].setBootCalled => job[j].verifiedOK
        /\ (job[j].verifyCalled /\ ~job[j].verifiedOK)
              => (job[j].pc = "error" /\ ~job[j].setBootCalled)

\* C2: an engine job whose download ended with a byte count different from
\* the declared size is in ERROR, has invoked neither verify_firmware nor
\* set_boot, and the boot target is the running partition unless another
\* job has invoked set_boot.
C2_SizeMismatchIsError ==
    \A j \in JobIds :
        (Engine(j) /\ job[j].pc \notin {"idle", "start", "stream"}
           /\ job[j].downloaded # job[j].size)
        => /\ job[j].pc = "error"
           /\ ~job[j].verifyCalled
           /\ ~job[j].setBootCalled
           /\ (boot # RunningPartition
                 => \E k \in JobIds \ {j} : job[k].setBootCalled)

\* a download that stopped short of the declared size after writing a block
C2_Witness ==
    \E j \in JobIds :
        /\ Engine(j) /\ job[j].pc = "error" /\ job[j].erased
        /\ job[j].downloaded = ChunkSize /\ job[j].size = ChunkSize + 100
        /\ boot = RunningPartition

\* C3: at most one OTA job is between its start and its ERROR or reboot.
C3_AtMostOneActiveJob ==
    Cardinality({j \in JobIds : Active(j)}) <= 1

\* C4: an ota_update message handled while a job is active starts no job
\* thread.
C4_BusyRejected ==
    [][(\E k \in JobIds : Active(k))
          => \A j \in JobIds :
                (job[j].pc = "idle" /\ job'[j].kind = "ws") => job'[j].pc = "idle"]_vars

\* C5: a job that has called writeblocks has completed erase() before, in
\* the same job (engine download and HTTP upload alike).
C5_EraseBeforeWrite ==
    \A j \in JobIds : job[j].nwrites > 0 => job[j].erased

\* a job of each kind has written a block
C5_Witness ==
    /\ \E j \in JobIds : Engine(j) /\ job[j].nwrites > 0 /\ job[j].erased
    /\ \E j \in JobIds : job[j].kind = "upload" /\ job[j].nwrites > 0

\* C6: within one job, each writeblocks call after the first is passed a
\* block index greater than that of the call before it.
C6_BlockIndexIncreases ==
    [][\A j \in JobIds :
          (job[j].nwrites > 0 /\ job'[j].nwrites > job[j].nwrites)
             => job'[j].lastBlock > job[j].lastBlock]_vars

\* C7: the partition a job erases, writes and marks as boot target is not the
\* running partition, and the running partition's content is the original
\* image in every state.
C7_RunningPartitionUntouched ==
    /\ \A j \in JobIds : job[j].part # RunningPartition
    /\ flash[RunningPartition] = OrigImage
    /\ boot \in {RunningPartition, UpdatePartition}

\* jobs have failed and succeeded, and the update partition has been written
C7_Witness ==
    /\ reset # 0
    /\ boot = UpdatePartition
    /\ \E j \in JobIds : job[j].pc = "error" /\ job[j].erased
    /\ flash[UpdatePartition] # OrigImage

C9_FailureReported ==
    [][\A j \in JobIds :
          /\ (job[j].pc # "error" /\ job'[j].pc = "error")
                => (job'[j].last.stage = "error" /\ ota_progress'.stage = "error")
          /\ job[j].pc = "error" => job'[j] = job[j]]_vars

\* C32: every block a job has written holds one whole buffer: the chunk's
\* bytes at its start and, when the chunk was shorter than 4096 bytes, 0xFF
\* in every byte behind them, with nothing left of an earlier chunk.
C32_ShortChunkPadded ==
    \A p \in Partitions : \A b \in Blocks :
        /\ flash[p][b].len \in 0..ChunkSize
        /\ flash[p][b].rest = IF flash[p][b].len = ChunkSize THEN "none" ELSE "ff"

\* an engine job and an upload job have each written a short chunk
C32_Witness ==
    \E j, k \in JobIds :
        /\ Engine(j) /\ job[k].kind = "upload"
        /\ job[j].nwrites > 0 /\ job[k].nwrites > 0
        /\ job[j].downloaded = 100
        /\ \E b \in Blocks : flash[UpdatePartition][b].len = 100

\* C34: when an engine job calls verify_firmware, the bytes it reads back
\* from the partition for the digest are the bytes received from the
\* network, downloaded bytes long, however the stream was cut into reads.
C34_ReadbackEqualsReceived ==
    [][\A j \in JobIds :
          (Engine(j) /\ ~job[j].verifyCalled /\ job'[j].verifyCalled)
          => ReadbackDigest(flash, job[j].part, job[j].downloaded)
                = GoodChecksum(job[j].downloaded)]_vars

SnapshotIsOneReport(snap) ==
    \/ snap = [stage |-> "idle", progress |-> 0]
    \/ \E j \in JobIds : job[j].kind \in HttpKinds /\ snap = job[j].last

C24_FlashFailureNotAbsorbed ==
    \A j \in JobIds : job[j].flashFailed => job[j].pc # "error"

\* C27: while a job is active and has reported, the snapshot GET
\* /ota-progress returns is the job's latest report, for a job started over
\* WebSocket as for one started over HTTP.
C27_SnapshotIsLatestReport ==
    \A j \in JobIds :
        (Active(j) /\ job[j].last # NoReport /\ ~HttpBusy)
           => handle_get_progress = job[j].last

\* C28: no job runs on the thread of a request loop: whenever a job is
\* between its start and its end, the HTTP server's request loop is free to
\* accept and answer.
C28_JobsOffRequestLoops ==
    \A j \in JobIds : (Active(j) \/ job[j].reporting) => job[j].kind = "ws"

\* C22: the progress of every report of a download or upload loop, which is
\* what the shared snapshot takes, is between 0 and 100, for every declared
\* size and every number of bytes received.
C22_ProgressInRange ==
    stream.report \in 0..100

\* C26: in the download loop a report made after a read carries
\* 10 + floor(80 * downloaded / expected), the bytes received since the last
\* report stay below 64 KiB plus one read, and reaching the declared size
\* reports, however the stream is cut into reads.
C26_ReportCadence ==
    (stream.kind = "download" /\ stream.pc = "loop" /\ stream.reads > 0)
    => /\ stream.since = 0
          => stream.report
               = 10 + ((80 * stream.downloaded) \div stream.expected_size)
       /\ stream.since < ReportEvery + ChunkSize
       /\ stream.downloaded = stream.expected_size => stream.since = 0

----------------------------------------------------------------------------
(* Properties of the dispatcher *)

\* C10: on an open session, once handle_message has returned, exactly one
\* frame has been sent for the message it dispatched, unless the message is
\* ota_update.
C10_ExactlyOneReply ==
    \A c \in Conns :
        (sess[c].st = "open" /\ c \in ws_clients /\ sess[c].pc = "idle"
           /\ sess[c].msg \notin {"none", "ota_update"})
        => Len(sess[c].frames) = 1

\* C11: a message whose type no branch of handle_message supports is answered
\* with a frame of type 'error', and the session stays in its read loop.
C11_UnknownTypeErrorReply ==
    \A c \in Conns :
        (sess[c].msg = "unknown" /\ c \in ws_clients)
        => (Len(sess[c].frames) >= 1 /\ sess[c].frames[1] = "error")

\* C12: among the frames sent for an ota_update message, 'ota_started' occurs
\* at most once and no 'ota_progress' frame is sent before it.
C12_StartedBeforeProgress ==
    \A c \in Conns :
        sess[c].msg = "ota_update"
        => /\ Cardinality({i \in 1..Len(sess[c].frames) :
                              sess[c].frames[i] = "ota_started"}) <= 1
           /\ \A i \in 1..Len(sess[c].frames) :
                 sess[c].frames[i] = "ota_progress"
                 => \E k \in 1..(i - 1) : sess[c].frames[k] = "ota_started"

\* C13: a ping dispatched by a session in its read loop, whose send does not
\* fail, puts one 'pong' frame on that session.
C13_PingAnswered ==
    [][\A c \in Conns :
          handle_message(c, "ping", "pong", TRUE)
          => sess'[c].frames = <<"pong">>]_vars

\* C29: a message whose body is not valid JSON, or is a JSON object without a
\* type field, is answered with a frame of type 'error', and the session
\* stays open in its read loop.
C29_InvalidBodyErrorReply ==
    \A c \in Conns :
        (sess[c].msg \in {"badjson", "notype"} /\ sess[c].pc = "idle"
           /\ c \in ws_clients)
        => /\ sess[c].st = "open"
           /\ sess[c].frames = <<"error">>

\* C30: a connection in the connection set has sent a request with the
\* upgrade header and a key and has been sent the 101 response; a connection
\* whose handshake failed is not in the set and its socket is closed.
C30_AddedAfterHandshake ==
    \A c \in Conns :
        /\ c \in ws_clients => sess[c].hs = "ok"
        /\ sess[c].hs \in {"no_upgrade", "no_key", "send_raised"}
              => (c \notin ws_clients /\ sess[c].st = "closed")

\* one connection passed the handshake and is in the set, another sent the
\* upgrade header without a key
C30_Witness ==
    \E c, d \in Conns :
        /\ c \in ws_clients /\ sess[c].hs = "ok" /\ sess[c].st = "open"
        /\ sess[d].hs = "no_key" /\ sess[d].st = "closed"

\* C31: a session that is in its read loop, reading and dispatching, is a
\* member of the connection set: a failed send ends the session it removed.
C31_ReadingSessionInSet ==
    \A c \in Conns : sess[c].st = "open" => c \in ws_clients

\* C38: while a session's thread is in its read loop and waits in recv, the
\* timeout in force on its socket is at most one second, also after the
\* thread of an OTA job or of a background program has sent on that socket.
C38_RecvTimeoutAtMostOneSecond ==
    \A c \in Conns :
        (sess[c].st = "open" /\ sess[c].pc = "idle") => sess[c].timeout <= 10

\* C20: the removal of a connection from the connection set raises no
\* error in the session thread nor in a thread whose send to it failed, and
\* a closed session's connection is not in the set.
C20_RemovalIdempotent ==
    \A c \in Conns :
        /\ sess[c].note # "ValueError"
        /\ sess[c].ota # "raised"
        /\ sess[c].st = "closed" => c \notin ws_clients

----------------------------------------------------------------------------
(* Properties of the frame codec *)

\* C21: a session whose last dispatched frame is more than 60 s (and one recv
\* timeout) back has left its read loop, whatever bytes that are no frame
\* recv returned in between.
C21_IdleSessionTerminates ==
    idle > IdleTimeout * TimeoutsPerSecond + 1 => client_pc = "closed"

\* C33 as claimed: parsing a complete masked client frame returns the
\* payload's bytes, whatever they are, and an incomplete one returns None.
C33_MaskedFrameReturnsPayload ==
    (/\ client_pc \in {"dispatch", "continue"} /\ peer.origin = "client"
     /\ peer.frames = 1 /\ peer.got = Len(data))
    => message = IF Len(data) = FrameLen(Len(peer.payload))
                 THEN Str(peer.payload) ELSE None

\* C33: parsing a complete masked client frame, in each of the three length
\* tiers, returns the unmasked payload decoded as text: the payload itself
\* when it is ASCII, and otherwise the payload without the bytes that are
\* not valid UTF-8; parsing an incomplete frame returns None.
C33_MaskedFrameDecoded ==
    (/\ client_pc \in {"dispatch", "continue"} /\ peer.origin = "client"
     /\ peer.frames = 1 /\ peer.got = Len(data))
    => IF Len(data) = FrameLen(Len(peer.payload))
       THEN /\ message = Str(decode_utf8_ignore(peer.payload))
            /\ (\A i \in 1..Len(peer.payload) : peer.payload[i] < 128)
                  => message = Str(peer.payload)
       ELSE message = None

\* a complete frame of the third tier with a non-zero mask was parsed
C33_Witness ==
    /\ client_pc = "dispatch" /\ peer.origin = "client"
    /\ Len(peer.payload) = 65536 /\ peer.mask # <<0, 0, 0, 0>>
    /\ Len(data) = FrameLen(65536)
    /\ message = Str(peer.payload)

\* C35: once the read loop has received all the bytes of the text frames a
\* client has sent, in one recv or in two, and has parsed them, it has
\* dispatched as many messages as the client sent frames, and the message it
\* dispatches is the first frame's payload.
C35_EveryFrameDispatchedOnce ==
    (/\ client_pc \in {"dispatch", "continue"} /\ peer.origin = "client"
     /\ peer.got = peer.total
     /\ peer.payload # <<>>
     /\ \A i \in 1..Len(peer.payload) : peer.payload[i] < 128)
    => /\ peer.handled + (IF client_pc = "dispatch" THEN 1 ELSE 0)
            = peer.frames
       /\ client_pc = "dispatch" /\ peer.frames = 1
            => message = Str(peer.payload)

\* C39: parse_improv_packet applied to the packet send_improv_response
\* builds for a type and a payload of 0 to 255 bytes returns that type and
\* that payload, and applied to that packet with another checksum byte it
\* returns None.
C39_ImprovRoundTrip ==
    improv.pc = "parsed"
    => improv.result =
          IF improv.intact
          THEN [some |-> TRUE, type |-> improv.packet_type,
                data |-> improv.payload]
          ELSE NoPacket

\* C14: parsing the frame that send_websocket_message builds for a payload
\* returns that payload.
C14_EncodeDecodeRoundTrip ==
    (client_pc \in {"dispatch", "continue"} /\ peer.origin = "server")
    => message = Str(peer.payload)

\* C15: parse_websocket_frame applied to fewer than 6 bytes returns None
\* without its except clause running, and the read loop goes on.
C15_ShortInputNeedsMoreData ==
    (client_pc \in {"dispatch", "continue"} /\ Len(data) < MinFrame)
    => (message = None /\ client_pc = "continue")

C15_Witness ==
    /\ client_pc = "continue"
    /\ Len(data) = MinFrame - 1
    /\ peer.origin = "client"
    /\ message = None

----------------------------------------------------------------------------
(* Properties of the execution sandbox *)

\* C16: a persistent execute request whose write succeeds leaves the
\* submitted text as the content of the target file, starts no thread, runs
\* no code, and its reply states that a restart is required.
C16_PersistentWritesOnly ==
    [][\A c \in Conns : \A fn \in Filenames : \A cmd \in Cmds :
          \A ok \in BOOLEAN :
             save_persistent_code(c, fn, cmd, TRUE, ok)
             => /\ files'[fn] = cmd
                /\ prog' = prog
                /\ sess'[c].pc = "idle"
                /\ sess'[c].note = "restart"]_vars

\* C17: code that loops without end is never run inline by the session
\* thread, and while a background program runs a ping dispatched by any
\* session, whose send does not fail, puts one 'pong' frame on that session.
C17_LoopRunsInBackground ==
    /\ [](\A c \in Conns :
             sess[c].msg \in {"exec_loop", "exec_hidden_loop"}
             => sess[c].pc # "exec")
    /\ [][\A c \in Conns :
             ((\E i \in ProgIds : prog[i].st = "running")
                /\ handle_message(c, "ping", "pong", TRUE))
             => sess'[c].frames = <<"pong">>]_vars

\* C18: at most one background program that polls should_stop() is running.
C18_AtMostOneProgram ==
    Cardinality({i \in ProgIds :
                    prog[i].st = "running" /\ prog[i].kind = "polls"}) <= 1

\* C19: when code run inline for a session of the connection set raises,
\* the session gets an 'error' frame and stays open; when a background
\* program raises, the session that submitted it gets an 'error' frame.
C19_ExceptionBecomesErrorReply ==
    [][/\ \A c \in ws_clients : \A outcome \in {"raises", "exits"} :
             exec_inline_ends(c, outcome, TRUE)
             => /\ sess'[c].st = "open"
                /\ sess'[c].frames = <<"error">>
       /\ \A i \in ProgIds :
             (user_thread_raises(i, TRUE) /\ prog[i].conn \in ws_clients)
             => sess'[prog[i].conn].frames
                   = Append(sess[prog[i].conn].frames, "error")]_vars

\* C36: whenever no session is inside execute_temporary_code, every call
\* having returned, raised or started its background program, sys.stdout and
\* sys.stderr are the streams the device booted with.
C36_StreamsRestored ==
    (\A c \in Conns : sess[c].pc \notin {"sleep", "run", "exec"})
    => sys_stdout = 0

\* C25: a temporary execute request handled while a background program is
\* running sets the cancellation flag and waits the grace period before it
\* goes on, and the flag is not cleared while a polling program started
\* earlier is still running, so that program finds it set at its next safe
\* point.
C25_FlagSetBeforeNewProgram ==
    [][/\ \A c \in Conns : \A m \in TempMsgs :
             ((\E i \in ProgIds : prog[i].st = "running")
                /\ execute_temporary_code(c, m))
             => (stop_user_code_flag' /\ sess'[c].pc = "sleep")
       /\ (stop_user_code_flag /\ ~stop_user_code_flag')
             => \A i \in ProgIds :
                   prog[i].st = "running" => prog[i].kind # "polls"]_vars

====
